---- MODULE Spec2Model ----
(***************************************************************************)
(* Model of webapp_food.user_fooder.User: the preference ledger, the       *)
(* neighbour selection, the suggestion policy, the adjacency graph and the *)
(* neighbour analytics, over small interaction tables.                     *)
(*                                                                         *)
(* A DataFrame of interactions is a set of records                         *)
(* [user_id, recipe_id, rate]; a pivot table is a record                   *)
(* [index, columns, cell]; the dict of preferences is a sequence of        *)
(* <<recipe_id, rating>> pairs in insertion order (a Python dict keeps     *)
(* insertion order).                                                       *)
(***************************************************************************)
EXTENDS Integers, Sequences, FiniteSets, TLC

\* settings.py
LIKE == 1
DISLIKE == -1
TYPE_OF_DISH == <<"main", "dessert">>

\* default arguments of percentile_filter
NB_FILTERED_ROWS_MIN == 5
NB_FILTERED_ROWS_MAX == 100

\* bounds of the model
MaxUser == 2
MaxRecipe == 3
MaxRecords == 3
MaxRows == 4
MaxDist == 2
MaxNb == 3
MaxLoads == 3

UserIds == 1..MaxUser
RecipeIds == 1..MaxRecipe
Ratings == {LIKE, DISLIKE}

----------------------------------------------------------------------------
\* arithmetic helpers

Abs(x) == IF x < 0 THEN -x ELSE x

RECURSIVE SumFn(_, _)
\* the sum of f[x] over the x of the finite set S
SumFn(f, S) ==
    IF S = {} THEN 0
    ELSE LET x == CHOOSE y \in S : TRUE
         IN  f[x] + SumFn(f, S \ {x})

RECURSIVE SortedSeq(_)
\* the elements of a finite set of integers in ascending order
SortedSeq(S) ==
    IF S = {} THEN << >>
    ELSE LET m == CHOOSE y \in S : \A z \in S : y <= z
         IN  <<m>> \o SortedSeq(S \ {m})

\* the position of x in the sequence s (x occurs once)
IndexOf(s, x) == CHOOSE i \in DOMAIN s : s[i] = x

----------------------------------------------------------------------------
\* interaction tables

Record(u, r, x) == [user_id |-> u, recipe_id |-> r, rate |-> x]

\* the table holding one record per non-zero cell of f
TableOf(f) ==
    {Record(p[1], p[2], f[p]) : p \in {q \in DOMAIN f : f[q] # 0}}

\* every table over UserIds x RecipeIds with at most one record per pair and
\* at most MaxRecords records
GeneratedTables ==
    {t \in {TableOf(f) : f \in [UserIds \X RecipeIds -> {DISLIKE, 0, LIKE}]} :
        Cardinality(t) <= MaxRecords}

\* main_data of the test fixture; the recipes 101, 102, 103 are written 1, 2, 3
FixtureMain ==
    { Record(1, 1, LIKE), Record(2, 2, LIKE), Record(3, 3, DISLIKE),
      Record(4, 2, LIKE), Record(4, 3, LIKE) }

\* dessert_data of the test fixture; the recipes 201, 202 are written 1, 2
FixtureDessert ==
    { Record(1, 1, LIKE), Record(2, 2, DISLIKE) }

\* a table with more users than NB_FILTERED_ROWS_MIN, so that the head() of
\* the sorted candidates cuts some of them
CrowdMain ==
    { Record(1, 1, LIKE), Record(1, 2, LIKE), Record(1, 3, LIKE),
      Record(2, 1, LIKE), Record(2, 2, LIKE),
      Record(3, 1, LIKE), Record(3, 3, LIKE),
      Record(4, 1, LIKE), Record(4, 3, DISLIKE),
      Record(5, 1, LIKE),
      Record(6, 1, LIKE), Record(6, 3, DISLIKE),
      Record(7, 1, LIKE), Record(7, 3, DISLIKE) }

\* two users who each share a recipe with a one-recipe or two-recipe ledger
\* and rate the third recipe alike
ChainMain ==
    { Record(1, 1, LIKE), Record(1, 3, LIKE),
      Record(2, 2, DISLIKE), Record(2, 3, LIKE) }

\* two users who rate every recipe, alike on two of them
DenseMain ==
    { Record(1, 1, LIKE), Record(1, 2, DISLIKE), Record(1, 3, LIKE),
      Record(2, 1, LIKE), Record(2, 2, LIKE), Record(2, 3, LIKE) }

\* six users over four recipes: with the ledger {1: LIKE, 2: LIKE} user 1 is
\* at distance 0 and the users 2 to 6 are tied at distance 1, one more than
\* the head() of NB_FILTERED_ROWS_MIN rows takes; user 2 rated recipe 3 and
\* user 3 recipe 4, so the recipe returned depends on the order of the tie
TieMain ==
    { Record(1, 1, LIKE), Record(1, 2, LIKE),
      Record(2, 1, LIKE), Record(2, 3, LIKE),
      Record(3, 1, LIKE), Record(3, 4, LIKE),
      Record(4, 1, LIKE), Record(5, 1, LIKE), Record(6, 1, LIKE) }

MainTables == GeneratedTables \cup {FixtureMain, CrowdMain, ChainMain, DenseMain}

Users(interactions) == {rec.user_id : rec \in interactions}
Recipes(interactions) == {rec.recipe_id : rec \in interactions}

----------------------------------------------------------------------------
\* the dict of preferences

Keys(preferences) == {preferences[i][1] : i \in DOMAIN preferences}

Rating(preferences, r) ==
    preferences[CHOOSE i \in DOMAIN preferences : preferences[i][1] = r][2]

\* list(preferences.keys()) and list(preferences.values())
KeyList(preferences) == [i \in DOMAIN preferences |-> preferences[i][1]]
ValueList(preferences) == [i \in DOMAIN preferences |-> preferences[i][2]]

\* mutant: the entry is appended also when the key is already present
dict_setitem_appends(preferences, r, x) ==
    Append(preferences, <<r, x>>)

\* mutant: a key already present is moved to the end
dict_setitem_moves_to_end(preferences, r, x) ==
    Append(SelectSeq(preferences, LAMBDA e : e[1] # r), <<r, x>>)

\* self.__preferences[recipe_suggested] = rating: a key already present
\* keeps its position
dict_setitem(preferences, r, x) ==
    IF r \in Keys(preferences)
    THEN [i \in DOMAIN preferences |->
            IF preferences[i][1] = r THEN <<r, x>> ELSE preferences[i]]
    ELSE Append(preferences, <<r, x>>)

\* mutant: the test of the deletion is inverted
dict_delitem_inverted(preferences, r) ==
    SelectSeq(preferences, LAMBDA e : e[1] = r)

\* del self.__preferences[recipe_deleted]
dict_delitem(preferences, r) ==
    SelectSeq(preferences, LAMBDA e : e[1] # r)

----------------------------------------------------------------------------
\* static methods

\* mutant: every dish type passes
validity_type_of_dish_any(type) == TRUE

\* validity_type_of_dish(type_of_dish) returns (TRUE) when the type is in
\* TYPE_OF_DISH and raises ValueError (FALSE) otherwise
validity_type_of_dish(type) ==
    \E i \in DOMAIN TYPE_OF_DISH : TYPE_OF_DISH[i] = type

\* DataFrame.pivot(index=user_id, columns=recipe_id, values=rate).fillna(0):
\* rows and columns are the ids present, in ascending order
pivot_table_of_df(interactions_reduce) ==
    [ index   |-> Users(interactions_reduce),
      columns |-> Recipes(interactions_reduce),
      cell    |-> [p \in Users(interactions_reduce) \X Recipes(interactions_reduce) |->
                     IF \E rec \in interactions_reduce :
                            rec.user_id = p[1] /\ rec.recipe_id = p[2]
                     THEN (CHOOSE rec \in interactions_reduce :
                            rec.user_id = p[1] /\ rec.recipe_id = p[2]).rate
                     ELSE 0] ]

\* DataFrame - ndarray of shape (1, k): the array is matched to the columns
\* by position and needs as many entries as the frame has columns
can_broadcast(recipes_rating, interactions_pivot) ==
    Len(recipes_rating) = Cardinality(interactions_pivot.columns)

\* np.abs(interactions_pivot - recipes_rating): the j-th entry of
\* recipes_rating is subtracted from the j-th column, the columns being in
\* ascending recipe_id order
abs_deviation(recipes_rating, interactions_pivot) ==
    LET cols == SortedSeq(interactions_pivot.columns)
    IN  [p \in interactions_pivot.index \X interactions_pivot.columns |->
            Abs(interactions_pivot.cell[p] - recipes_rating[IndexOf(cols, p[2])])]

\* the k-th smallest (k from 0) of the values dist[x], x in rows
OrderStatistic(rows, dist, k) ==
    CHOOSE v \in {dist[x] : x \in rows} :
        /\ Cardinality({x \in rows : dist[x] < v}) <= k
        /\ k < Cardinality({x \in rows : dist[x] <= v})

\* dist <= dist.quantile(0.1), linear interpolation between the order
\* statistics around position 0.1 * (n - 1); both sides are times 10.
\* On no rows the quantile is NaN and the comparison is False.
below_percentile_10(rows, dist, x) ==
    LET n  == Cardinality(rows)
        lo == (n - 1) \div 10
        fr == (n - 1) % 10
        a  == OrderStatistic(rows, dist, lo)
        b  == IF lo + 1 < n THEN OrderStatistic(rows, dist, lo + 1) ELSE a
    IN  10 * dist[x] <= 10 * a + fr * (b - a)

\* mutant: the rows are filtered in every branch
percentile_filter_clamps(rows, dist, nb_filtered_rows_min, nb_filtered_rows_max) ==
    LET filter_percentile_10 == {x \in rows : below_percentile_10(rows, dist, x)}
        nb_filtered_rows == Cardinality(filter_percentile_10)
    IN  [rows |-> filter_percentile_10,
         nb   |-> IF nb_filtered_rows < nb_filtered_rows_min THEN nb_filtered_rows_min
                  ELSE IF nb_filtered_rows > nb_filtered_rows_max THEN nb_filtered_rows_max
                  ELSE nb_filtered_rows]

percentile_filter(rows, dist, nb_filtered_rows_min, nb_filtered_rows_max) ==
    LET filter_percentile_10 == {x \in rows : below_percentile_10(rows, dist, x)}
        nb_filtered_rows == Cardinality(filter_percentile_10)
    IN  IF nb_filtered_rows < nb_filtered_rows_min
        THEN [rows |-> rows, nb |-> nb_filtered_rows_min]
        ELSE IF nb_filtered_rows > nb_filtered_rows_max
        THEN [rows |-> rows, nb |-> nb_filtered_rows_max]
        ELSE [rows |-> filter_percentile_10, nb |-> nb_filtered_rows]

----------------------------------------------------------------------------
\* neighbour selection and suggestion

Min(a, b) == IF a <= b THEN a ELSE b

\* sort_values("dist").head(nb).index: the nb rows of least dist. The sort
\* is not stable, so among rows of equal dist any of them may come first:
\* every set the head can be is a member.
sorted_head(rows, dist, nb) ==
    {P \in SUBSET rows :
        /\ Cardinality(P) = Min(nb, Cardinality(rows))
        /\ \A p \in P : \A q \in rows \ P : dist[p] <= dist[q]}

\* the "dist" column: interactions_abs.sum(axis=1)
dist_of(recipes_rating, interactions_pivot_input) ==
    LET interactions_abs == abs_deviation(recipes_rating, interactions_pivot_input)
    IN  [u \in interactions_pivot_input.index |->
            SumFn([r \in interactions_pivot_input.columns |-> interactions_abs[<<u, r>>]],
                  interactions_pivot_input.columns)]

\* the rows left by ~np.all(interactions_abs == 2, axis=1)
not_all_opposite(recipes_rating, interactions_pivot_input) ==
    LET interactions_abs == abs_deviation(recipes_rating, interactions_pivot_input)
    IN  {u \in interactions_pivot_input.index :
            ~ \A r \in interactions_pivot_input.columns : interactions_abs[<<u, r>>] = 2}

\* mutant: the recipes of recipes_id are not dropped
interactions_prox_keeps_rated(recipes_id, interactions, user_prox_id) ==
    {rec \in interactions : rec.user_id \in user_prox_id}

\* the records of the users of user_prox_id on recipes outside recipes_id
interactions_prox_of(recipes_id, interactions, user_prox_id) ==
    {rec \in interactions :
        /\ rec.user_id \in user_prox_id
        /\ ~ \E i \in DOMAIN recipes_id : recipes_id[i] = rec.recipe_id}

\* mutant: the rows of the reindexed pivot are not cut back to the users who
\* have a record in interactions_prox
near_neighbor_keeps_pool(recipes_id, recipes_rating, interactions, interactions_pivot_input) ==
    LET dist == dist_of(recipes_rating, interactions_pivot_input)
        kept == not_all_opposite(recipes_rating, interactions_pivot_input)
        pf   == percentile_filter(kept, dist, NB_FILTERED_ROWS_MIN, NB_FILTERED_ROWS_MAX)
        out(user_prox_id) ==
            pivot_table_of_df(interactions_prox_of(recipes_id, interactions, user_prox_id))
    IN  {[ index   |-> user_prox_id,
           columns |-> out(user_prox_id).columns,
           cell    |-> [p \in user_prox_id \X out(user_prox_id).columns |->
                          IF p[1] \in out(user_prox_id).index
                          THEN out(user_prox_id).cell[p] ELSE 0] ] :
            user_prox_id \in sorted_head(pf.rows, dist, pf.nb)}

\* every interactions_selection the method can return (one per possible
\* head of the sort). The pivot of interactions_prox, reindexed to
\* user_prox_id and cut back to np.unique(interactions_prox.user_id), is the
\* pivot of interactions_prox.
near_neighbor(recipes_id, recipes_rating, interactions, interactions_pivot_input) ==
    LET dist == dist_of(recipes_rating, interactions_pivot_input)
        kept == not_all_opposite(recipes_rating, interactions_pivot_input)
        pf   == percentile_filter(kept, dist, NB_FILTERED_ROWS_MIN, NB_FILTERED_ROWS_MAX)
    IN  {pivot_table_of_df(interactions_prox_of(recipes_id, interactions, user_prox_id)) :
            user_prox_id \in sorted_head(pf.rows, dist, pf.nb)}

\* DataFrame.empty
empty(frame) == frame.index = {} \/ frame.columns = {}

\* mutant: the first column of least sum
idxmin_of_sum(interactions_selection) ==
    LET total(r) == SumFn([u \in interactions_selection.index |->
                              interactions_selection.cell[<<u, r>>]],
                          interactions_selection.index)
    IN  CHOOSE r \in interactions_selection.columns :
            \A q \in interactions_selection.columns :
                total(q) > total(r) \/ (total(q) = total(r) /\ r <= q)

\* interactions_selection.sum(axis=0).idxmax(): the first column, in
\* ascending recipe_id order, of greatest sum
idxmax_of_sum(interactions_selection) ==
    LET total(r) == SumFn([u \in interactions_selection.index |->
                              interactions_selection.cell[<<u, r>>]],
                          interactions_selection.index)
    IN  CHOOSE r \in interactions_selection.columns :
            \A q \in interactions_selection.columns :
                total(q) < total(r) \/ (total(q) = total(r) /\ r <= q)

\* mutant: the recipes already in the preferences are not dropped
not_in_preferences_keeps_all(interactions, recipes_id) ==
    interactions

\* interactions[~interactions.recipe_id.isin(recipes_id)]
not_in_preferences(interactions, recipes_id) ==
    {rec \in interactions :
        ~ \E i \in DOMAIN recipes_id : recipes_id[i] = rec.recipe_id}

Outcome(error, path, ret, nn) ==
    [error |-> error, path |-> path, ret |-> ret, near_neighbor |-> nn]

\* mutant: the fallback takes the lowest recipe instead of a sample
suggestion_from_first_row(interactions, recipes_id, interactions_selection) ==
    IF empty(interactions_selection)
    THEN IF not_in_preferences(interactions, recipes_id) = {}
         THEN {Outcome("ValueError", "exhausted", 0, interactions_selection.index)}
         ELSE {Outcome("none", "fallback",
                       CHOOSE r \in Recipes(not_in_preferences(interactions, recipes_id)) :
                           \A q \in Recipes(not_in_preferences(interactions, recipes_id)) :
                               r <= q,
                       interactions_selection.index)}
    ELSE {Outcome("none", "neighbor", idxmax_of_sum(interactions_selection),
                  interactions_selection.index)}

\* what one call of recipe_suggestion on one interactions_selection does
suggestion_from(interactions, recipes_id, interactions_selection) ==
    IF empty(interactions_selection)
    THEN IF not_in_preferences(interactions, recipes_id) = {}
         THEN {Outcome("ValueError", "exhausted", 0, interactions_selection.index)}
         ELSE {Outcome("none", "fallback", r, interactions_selection.index) :
                  r \in Recipes(not_in_preferences(interactions, recipes_id))}
    ELSE {Outcome("none", "neighbor", idxmax_of_sum(interactions_selection),
                  interactions_selection.index)}

\* every outcome of recipe_suggestion(): the error raised ("none" when it
\* returns), the path taken, the recipe returned and the value of
\* self.__near_neighbor afterwards. sample(n=1) on no rows and a
\* recipes_rating that cannot be broadcast raise ValueError before
\* self.__near_neighbor is assigned.
recipe_suggestion(interactions, preferences, old_near_neighbor) ==
    IF Len(preferences) = 0
    THEN IF interactions = {}
         THEN {Outcome("ValueError", "cold", 0, old_near_neighbor)}
         ELSE {Outcome("none", "cold", r, old_near_neighbor) : r \in Recipes(interactions)}
    ELSE LET recipes_id == KeyList(preferences)
             recipes_rating == ValueList(preferences)
             interactions_reduce == {rec \in interactions : rec.recipe_id \in Keys(preferences)}
             interactions_pivot == pivot_table_of_df(interactions_reduce)
         IN  IF ~ can_broadcast(recipes_rating, interactions_pivot)
             THEN {Outcome("ValueError", "shape", 0, old_near_neighbor)}
             ELSE UNION {suggestion_from(interactions, recipes_id, sel) :
                           sel \in near_neighbor(recipes_id, recipes_rating,
                                                 interactions, interactions_pivot)}

----------------------------------------------------------------------------
\* adjacency graph and neighbour analytics

\* "user " + str(neighbor)
user_label(n) == <<"user", n>>

\* nx.relabel_nodes(graph, {"user 0": "you"})
relabel(label) == IF label = user_label(0) THEN <<"you">> ELSE label

\* mutant: recipe_ids holds every recipe of the preferences, whatever its rating
graph_matrix_any_rating(type, preferences, interactions, near_neighbor_ids) ==
    LET recipe_ids == Keys(preferences)
        pivot == pivot_table_of_df({rec \in interactions : rec.user_id \in near_neighbor_ids})
        columns == pivot.columns \cup recipe_ids
    IN  [ index   |-> {0} \cup pivot.index,
          columns |-> columns,
          cell    |-> [p \in ({0} \cup pivot.index) \X columns |->
                         IF p[1] = 0
                         THEN (IF p[2] \in recipe_ids THEN type ELSE 0)
                         ELSE (IF p[2] \in pivot.columns THEN pivot.cell[p] ELSE 0)] ]

\* the pivot of the neighbours' records, padded with a zero column for each
\* recipe of recipe_ids it lacks, under the row 0 synthesized for the active
\* user: type on recipe_ids and 0 elsewhere
graph_matrix(type, preferences, interactions, near_neighbor_ids) ==
    LET recipe_ids == {r \in Keys(preferences) : Rating(preferences, r) = type}
        pivot == pivot_table_of_df({rec \in interactions : rec.user_id \in near_neighbor_ids})
        columns == pivot.columns \cup recipe_ids
    IN  [ index   |-> {0} \cup pivot.index,
          columns |-> columns,
          cell    |-> [p \in ({0} \cup pivot.index) \X columns |->
                         IF p[1] = 0
                         THEN (IF p[2] \in recipe_ids THEN type ELSE 0)
                         ELSE (IF p[2] \in pivot.columns THEN pivot.cell[p] ELSE 0)] ]

\* the recipes that make an edge between the rows a and b: the columns where
\* one of the two rows holds type, not both rows hold 0, and the absolute
\* deviation of the two rows is 0
recipes_with_edge(type, matrix, a, b) ==
    {r \in matrix.columns :
        /\ matrix.cell[<<a, r>>] = type \/ matrix.cell[<<b, r>>] = type
        /\ matrix.cell[<<a, r>>] # 0 \/ matrix.cell[<<b, r>>] # 0
        /\ Abs(matrix.cell[<<b, r>>] - matrix.cell[<<a, r>>]) = 0}

\* the edges added by the while loop: list_user[0] against every later
\* element, then the same on list_user[1:]
all_edges(type, matrix, list_user) ==
    {<<user_label(list_user[i]), user_label(list_user[j]), r>> :
        <<i, j, r>> \in {t \in (DOMAIN list_user) \X (DOMAIN list_user) \X matrix.columns :
                            /\ t[1] < t[2]
                            /\ t[3] \in recipes_with_edge(type, matrix,
                                                          list_user[t[1]], list_user[t[2]])}}

RECURSIVE Component(_, _)
\* the nodes with a path along edges to a node of S
Component(S, edges) ==
    LET step == S \cup {e[2] : e \in {f \in edges : f[1] \in S}}
                  \cup {e[1] : e \in {f \in edges : f[2] \in S}}
    IN  IF step = S THEN S ELSE Component(step, edges)

\* mutant: every node with a path to "you" is kept
connected_nodes_by_path(edges) ==
    Component({<<"you">>}, edges)

\* set(graph.neighbors("you")) plus "you"
connected_nodes(edges) ==
    {<<"you">>} \cup {e[2] : e \in {f \in edges : f[1] = <<"you">>}}
                \cup {e[1] : e \in {f \in edges : f[2] = <<"you">>}}

\* mutant: "you" is removed with the other nodes when it has no edge
get_graph_prunes_you(type, preferences, interactions, near_neighbor_ids) ==
    LET matrix    == graph_matrix(type, preferences, interactions, near_neighbor_ids)
        list_user == <<0>> \o SortedSeq(matrix.index \ {0})
        nodes     == {relabel(user_label(list_user[i])) : i \in DOMAIN list_user}
        edges     == {<<relabel(e[1]), relabel(e[2]), e[3]>> :
                         e \in all_edges(type, matrix, list_user)}
        kept      == connected_nodes(edges)
    IN  [ nodes |-> IF kept = {<<"you">>} THEN {} ELSE nodes \cap kept,
          edges |-> {e \in edges : e[1] \in kept /\ e[2] \in kept} ]

\* the graph get_graph returns when near_neighbor is not empty: its nodes
\* and its edges <<node, node, key>>
get_graph(type, preferences, interactions, near_neighbor_ids) ==
    LET matrix    == graph_matrix(type, preferences, interactions, near_neighbor_ids)
        list_user == <<0>> \o SortedSeq(matrix.index \ {0})
        nodes     == {relabel(user_label(list_user[i])) : i \in DOMAIN list_user}
        edges     == {<<relabel(e[1]), relabel(e[2]), e[3]>> :
                         e \in all_edges(type, matrix, list_user)}
        kept      == connected_nodes(edges)
    IN  [ nodes |-> nodes \cap kept,
          edges |-> {e \in edges : e[1] \in kept /\ e[2] \in kept} ]

\* mutant: the liked columns are not dropped before counting the recipes to
\* recommend
get_neighbor_data_keeps_liked(type, preferences, interactions, near_neighbor_ids) ==
    LET liked    == {r \in Keys(preferences) : Rating(preferences, r) = LIKE}
        disliked == {r \in Keys(preferences) : Rating(preferences, r) = DISLIKE}
        pivot    == pivot_table_of_df({rec \in interactions : rec.user_id \in near_neighbor_ids})
        columns  == pivot.columns \cup liked \cup disliked
        cell(n, r) == IF r \in pivot.columns THEN pivot.cell[<<n, r>>] ELSE 0
    IN  [ by   |-> IF type = LIKE THEN "Common likes" ELSE "Common dislikes",
          rows |-> [n \in pivot.index |->
                      [ common_likes    |-> Cardinality({r \in liked : cell(n, r) = LIKE}),
                        common_dislikes |-> Cardinality({r \in disliked : cell(n, r) = DISLIKE}),
                        to_recommend    |-> Cardinality({r \in columns :
                                                            cell(n, r) = LIKE}) ]] ]

\* the table get_neighbor_data returns: one row per user of the pivot of the
\* neighbours' records, sorted by descending `by`
get_neighbor_data(type, preferences, interactions, near_neighbor_ids) ==
    LET liked    == {r \in Keys(preferences) : Rating(preferences, r) = LIKE}
        disliked == {r \in Keys(preferences) : Rating(preferences, r) = DISLIKE}
        pivot    == pivot_table_of_df({rec \in interactions : rec.user_id \in near_neighbor_ids})
        columns  == pivot.columns \cup liked \cup disliked
        cell(n, r) == IF r \in pivot.columns THEN pivot.cell[<<n, r>>] ELSE 0
    IN  [ by   |-> IF type = LIKE THEN "Common likes" ELSE "Common dislikes",
          rows |-> [n \in pivot.index |->
                      [ common_likes    |-> Cardinality({r \in liked : cell(n, r) = LIKE}),
                        common_dislikes |-> Cardinality({r \in disliked : cell(n, r) = DISLIKE}),
                        to_recommend    |-> Cardinality({r \in columns \ liked :
                                                            cell(n, r) = LIKE}) ]] ]

----------------------------------------------------------------------------
\* the state of one User object and of its caller

VARIABLES
    interactions_main,     \* self.__interactions_main
    interactions_dessert,  \* self.__interactions_dessert
    type_of_dish,          \* self.__type_of_dish
    preferences,           \* self.__preferences
    cached_neighbors,      \* self.__near_neighbor, as the set of its user ids
    last,                  \* the last call: its arguments and its outcome
    before_add,            \* the preferences before the last add_preferences,
                           \* kept while the call after it deletes the same recipe
    ever_neighbor,         \* a recipe_suggestion of this user took the neighbour path
    pf_args,               \* the arguments of a direct call of percentile_filter
    pf_result,             \* what that call returned
    exists,                \* the session holds a User object
    class_attrs,           \* the names of the attributes set on the class User
    csv_reads,             \* how often load_datasets has read the two CSV files
    pv_args,               \* the rows given to a direct call of pivot_table_of_df
    pv_result,             \* what that call returned
    first_sort             \* the first sort_values("dist") of the session: its frame,
                           \* the head it gave and what the call returned

vars == <<interactions_main, interactions_dessert, type_of_dish, preferences,
          cached_neighbors, last, before_add, ever_neighbor, pf_args, pf_result,
          exists, class_attrs, csv_reads, pv_args, pv_result, first_sort>>

\* what no method of a User assigns after the construction, and what the
\* model remembers of direct calls and of the first sort
tables == <<interactions_main, interactions_dessert, type_of_dish, pf_args, pf_result,
            exists, class_attrs, csv_reads, pv_args, pv_result, first_sort>>

NoCall == [called |-> FALSE]

\* mutant: the table of the other dish type is returned
get_interactions_other ==
    IF type_of_dish = TYPE_OF_DISH[1] THEN interactions_dessert ELSE interactions_main

\* the property get_interactions
get_interactions ==
    IF type_of_dish = TYPE_OF_DISH[1] THEN interactions_main ELSE interactions_dessert

Call(op, recipe, rating, error, path, ret) ==
    [op |-> op, recipe |-> recipe, rating |-> rating, error |-> error,
     path |-> path, ret |-> ret]

\* the caller holds no outcome: it is between two calls. A call that reads
\* the tables is made from there; add_preferences and del_preferences may
\* also follow an add_preferences directly.
idle == last.op = "idle"

NoSnapshot == [valid |-> FALSE, preferences |-> << >>]

\* User(type_of_dish, test=True, df_main, df_dessert)
Init ==
    /\ \/ /\ type_of_dish = "main"
          /\ interactions_main \in MainTables
          /\ interactions_dessert = FixtureDessert
       \/ /\ type_of_dish = "dessert"
          /\ interactions_main = FixtureMain
          /\ interactions_dessert = FixtureDessert
    /\ preferences = << >>
    /\ cached_neighbors = {}
    /\ last = Call("idle", 0, 0, "none", "none", 0)
    /\ before_add = NoSnapshot
    /\ ever_neighbor = FALSE
    /\ pf_args = NoCall
    /\ pf_result = NoCall
    /\ pv_args = NoCall
    /\ pv_result = NoCall
    /\ first_sort = NoCall
    /\ exists = TRUE
    /\ class_attrs = {}
    /\ csv_reads = 0

\* user.add_preferences(recipe_suggested, rating)
AddPreferences(recipe_suggested, rating) ==
    /\ exists
    /\ idle \/ last.op = "add_preferences"
    /\ preferences' = dict_setitem(preferences, recipe_suggested, rating)
    /\ last' = Call("add_preferences", recipe_suggested, rating, "none", "none", 0)
    /\ before_add' = [valid |-> TRUE, preferences |-> preferences]
    /\ UNCHANGED <<tables, cached_neighbors, ever_neighbor>>

\* mutant: deleting a recipe that is not there is a silent no-op
DelPreferencesSilent(recipe_deleted) ==
    /\ exists
    /\ idle \/ last.op = "add_preferences"
    /\ preferences' = dict_delitem(preferences, recipe_deleted)
    /\ last' = Call("del_preferences", recipe_deleted, 0, "none", "none", 0)
    /\ before_add' = IF last.op = "add_preferences" /\ last.recipe = recipe_deleted
                     THEN before_add ELSE NoSnapshot
    /\ UNCHANGED <<tables, cached_neighbors, ever_neighbor>>

\* user.del_preferences(recipe_deleted)
DelPreferences(recipe_deleted) ==
    /\ exists
    /\ idle \/ last.op = "add_preferences"
    /\ IF recipe_deleted \in Keys(preferences)
       THEN /\ preferences' = dict_delitem(preferences, recipe_deleted)
            /\ last' = Call("del_preferences", recipe_deleted, 0, "none", "none", 0)
       ELSE /\ preferences' = preferences
            /\ last' = Call("del_preferences", recipe_deleted, 0, "KeyError", "none", 0)
    /\ before_add' = IF last.op = "add_preferences" /\ last.recipe = recipe_deleted
                     THEN before_add ELSE NoSnapshot
    /\ UNCHANGED <<tables, cached_neighbors, ever_neighbor>>

\* mutant: the recipe returned is recorded in the preferences
RecipeSuggestionRecords ==
    /\ exists
    /\ idle
    /\ \E o \in recipe_suggestion(get_interactions, preferences, cached_neighbors) :
        /\ cached_neighbors' = o.near_neighbor
        /\ last' = Call("recipe_suggestion", 0, 0, o.error, o.path, o.ret)
        /\ ever_neighbor' = (ever_neighbor \/ o.path = "neighbor")
        /\ before_add' = NoSnapshot
        /\ preferences' = IF o.error = "none"
                          THEN dict_setitem(preferences, o.ret, LIKE)
                          ELSE preferences
        /\ UNCHANGED tables

\* user.recipe_suggestion()
RecipeSuggestion ==
    /\ exists
    /\ idle
    /\ \E o \in recipe_suggestion(get_interactions, preferences, cached_neighbors) :
        /\ cached_neighbors' = o.near_neighbor
        /\ last' = Call("recipe_suggestion", 0, 0, o.error, o.path, o.ret)
        /\ ever_neighbor' = (ever_neighbor \/ o.path = "neighbor")
        /\ before_add' = NoSnapshot
        /\ UNCHANGED <<tables, preferences>>

\* mutant: the graph is built without the test of near_neighbor.empty
GetGraphUnchecked(type) ==
    /\ exists
    /\ idle
    /\ last' = Call("get_graph", 0, type, "none", "none",
                    get_graph(type, preferences, get_interactions, cached_neighbors))
    /\ before_add' = NoSnapshot
    /\ UNCHANGED <<tables, preferences, cached_neighbors, ever_neighbor>>

\* user.get_graph(type)
GetGraph(type) ==
    /\ exists
    /\ idle
    /\ IF cached_neighbors = {}
       THEN last' = Call("get_graph", 0, type, "NoNeighborError", "none", 0)
       ELSE last' = Call("get_graph", 0, type, "none", "none",
                         get_graph(type, preferences, get_interactions, cached_neighbors))
    /\ before_add' = NoSnapshot
    /\ UNCHANGED <<tables, preferences, cached_neighbors, ever_neighbor>>

\* user.get_neighbor_data(type)
GetNeighborData(type) ==
    /\ exists
    /\ idle
    /\ last' = Call("get_neighbor_data", 0, type, "none", "none",
                    get_neighbor_data(type, preferences, get_interactions, cached_neighbors))
    /\ before_add' = NoSnapshot
    /\ UNCHANGED <<tables, preferences, cached_neighbors, ever_neighbor>>

\* the caller is done with the outcome of its last call; what the model
\* remembers of that call is forgotten
Return ==
    /\ ~ idle
    /\ last' = Call("idle", 0, 0, "none", "none", 0)
    /\ before_add' = NoSnapshot
    /\ UNCHANGED <<tables, preferences, cached_neighbors, ever_neighbor>>

Next ==
    \/ Return
    \/ \E r \in RecipeIds, x \in Ratings : AddPreferences(r, x)
    \/ \E r \in RecipeIds : DelPreferences(r)
    \/ RecipeSuggestion
    \/ \E t \in Ratings : GetGraph(t)
    \/ \E t \in Ratings : GetNeighborData(t)

Spec == Init /\ [][Next]_vars

----------------------------------------------------------------------------
\* the creation of User objects in one session: the page keeps one user and
\* replaces it when a creation succeeds

\* the dish types a creation is tried with
DishInputs == {"main", "dessert", "invalid"}

\* the interactions held by the two CSV files
USER_MAIN_DF == ChainMain
USER_DESSERT_DF == FixtureDessert

\* hasattr(cls, name)
hasattr(attrs, name) == name \in attrs

\* load_datasets(): the names tested are the strings "__interactions_main"
\* and "__interactions_dessert"; the names assigned in the body of the class
\* are mangled to _User__interactions_main and _User__interactions_dessert
load_datasets(attrs, reads) ==
    IF ~ hasattr(attrs, "__interactions_main") \/ ~ hasattr(attrs, "__interactions_dessert")
    THEN [class_attrs |-> attrs \cup {"_User__interactions_main",
                                      "_User__interactions_dessert"},
          csv_reads   |-> reads + 1]
    ELSE [class_attrs |-> attrs, csv_reads |-> reads]

\* no User object yet
LifeInit ==
    /\ exists = FALSE
    /\ type_of_dish = "none"
    /\ interactions_main = {}
    /\ interactions_dessert = {}
    /\ preferences = << >>
    /\ cached_neighbors = {}
    /\ last = Call("idle", 0, 0, "none", "none", 0)
    /\ before_add = NoSnapshot
    /\ ever_neighbor = FALSE
    /\ pf_args = NoCall
    /\ pf_result = NoCall
    /\ pv_args = NoCall
    /\ pv_result = NoCall
    /\ first_sort = NoCall
    /\ class_attrs = {}
    /\ csv_reads = 0

\* mutant: the new user takes over the preferences and the neighbours of the
\* user it replaces
CreateUserKeepsLedger(type, test) ==
    /\ idle
    /\ test \/ csv_reads < MaxLoads
    /\ before_add' = NoSnapshot
    /\ UNCHANGED <<pf_args, pf_result, pv_args, pv_result, first_sort>>
    /\ IF ~ validity_type_of_dish(type)
       THEN /\ last' = Call("create", 0, 0, "ValueError", "none",
                            [type |-> type, test |-> test])
            /\ UNCHANGED <<exists, type_of_dish, preferences, cached_neighbors,
                           ever_neighbor, interactions_main, interactions_dessert,
                           class_attrs, csv_reads>>
       ELSE /\ last' = Call("create", 0, 0, "none", "none",
                            [type |-> type, test |-> test])
            /\ exists' = TRUE
            /\ type_of_dish' = type
            /\ UNCHANGED <<preferences, cached_neighbors, ever_neighbor>>
            /\ IF test
               THEN /\ interactions_main' = FixtureMain
                    /\ interactions_dessert' = FixtureDessert
                    /\ UNCHANGED <<class_attrs, csv_reads>>
               ELSE /\ class_attrs' = load_datasets(class_attrs, csv_reads).class_attrs
                    /\ csv_reads' = load_datasets(class_attrs, csv_reads).csv_reads
                    /\ interactions_main' = USER_MAIN_DF
                    /\ interactions_dessert' = USER_DESSERT_DF

\* user = User(type, test, df_main, df_dessert), with the fixture tables as
\* df_main and df_dessert in test mode. A creation that raises leaves the
\* session with the user it had.
CreateUser(type, test) ==
    /\ idle
    /\ test \/ csv_reads < MaxLoads
    /\ before_add' = NoSnapshot
    /\ UNCHANGED <<pf_args, pf_result, pv_args, pv_result, first_sort>>
    /\ IF ~ validity_type_of_dish(type)
       THEN /\ last' = Call("create", 0, 0, "ValueError", "none",
                            [type |-> type, test |-> test])
            /\ UNCHANGED <<exists, type_of_dish, preferences, cached_neighbors,
                           ever_neighbor, interactions_main, interactions_dessert,
                           class_attrs, csv_reads>>
       ELSE /\ last' = Call("create", 0, 0, "none", "none",
                            [type |-> type, test |-> test])
            /\ exists' = TRUE
            /\ type_of_dish' = type
            /\ preferences' = << >>
            /\ cached_neighbors' = {}
            /\ ever_neighbor' = FALSE
            /\ IF test
               THEN /\ interactions_main' = FixtureMain
                    /\ interactions_dessert' = FixtureDessert
                    /\ UNCHANGED <<class_attrs, csv_reads>>
               ELSE /\ class_attrs' = load_datasets(class_attrs, csv_reads).class_attrs
                    /\ csv_reads' = load_datasets(class_attrs, csv_reads).csv_reads
                    /\ interactions_main' = USER_MAIN_DF
                    /\ interactions_dessert' = USER_DESSERT_DF

\* User.load_datasets(), called on the class outside a creation, with or
\* without a user in the session. The two files are read again and the
\* attributes of the class are assigned again; the files do not change, so a
\* user who reads the tables of the class reads the same records, and a user
\* created with test=True keeps the tables it holds itself. The user, its
\* ledger and its neighbours are not touched.
LoadDatasets ==
    /\ idle
    /\ csv_reads < MaxLoads
    /\ last' = Call("load_datasets", 0, 0, "none", "none", 0)
    /\ class_attrs' = load_datasets(class_attrs, csv_reads).class_attrs
    /\ csv_reads' = load_datasets(class_attrs, csv_reads).csv_reads
    /\ before_add' = NoSnapshot
    /\ UNCHANGED <<interactions_main, interactions_dessert, type_of_dish, exists,
                   preferences, cached_neighbors, ever_neighbor, pf_args, pf_result,
                   pv_args, pv_result, first_sort>>

LifeNext ==
    \/ \E type \in DishInputs, test \in BOOLEAN : CreateUser(type, test)
    \/ LoadDatasets
    \/ Return
    \/ \E r \in RecipeIds, x \in Ratings : AddPreferences(r, x)
    \/ \E r \in RecipeIds : DelPreferences(r)
    \/ RecipeSuggestion
    \/ \E t \in Ratings : GetGraph(t)
    \/ \E t \in Ratings : GetNeighborData(t)

LifeSpec == LifeInit /\ [][LifeNext]_vars

----------------------------------------------------------------------------
\* percentile_filter called directly, as test_percentile_filter does; the
\* rows of the frame are numbered from 1

\* the "dist" columns of test_percentile_filter
data_A == <<1, 1, 1, 1>>
data_B == <<1, 2, 5, 3, 1, 8, 5, 9>>
data_C == << >>

\* a column long enough for the percentile to lie between the second and
\* the third smallest value
data_long == <<3, 0, 2, 1, 1, 2, 0, 3, 2, 1, 3, 2>>

PFArgs(dist, nb_filtered_rows_min, nb_filtered_rows_max) ==
    [called |-> TRUE, dist |-> dist,
     nb_filtered_rows_min |-> nb_filtered_rows_min,
     nb_filtered_rows_max |-> nb_filtered_rows_max]

GeneratedDists == UNION {[1..n -> 0..MaxDist] : n \in 0..MaxRows}

TestCalls ==
    { PFArgs(data_A, 1, 6), PFArgs(data_B, 1, 6), PFArgs(data_B, 5, 10),
      PFArgs(data_B, 1, 1), PFArgs(data_C, 1, 10),
      PFArgs(data_long, 1, 6), PFArgs(data_long, 3, 3) }

PFInit ==
    /\ pf_args \in {PFArgs(d, mn, mx) : d \in GeneratedDists, mn \in 0..MaxNb, mx \in 0..MaxNb}
                   \cup TestCalls
    /\ pf_result = NoCall
    /\ type_of_dish = "main"
    /\ interactions_main = FixtureMain
    /\ interactions_dessert = FixtureDessert
    /\ preferences = << >>
    /\ cached_neighbors = {}
    /\ last = Call("idle", 0, 0, "none", "none", 0)
    /\ before_add = NoSnapshot
    /\ ever_neighbor = FALSE
    /\ exists = TRUE
    /\ class_attrs = {}
    /\ csv_reads = 0
    /\ pv_args = NoCall
    /\ pv_result = NoCall
    /\ first_sort = NoCall

\* User.percentile_filter(frame, nb_filtered_rows_min, nb_filtered_rows_max)
PercentileFilter ==
    /\ pf_args.called
    /\ ~ pf_result.called
    /\ LET out == percentile_filter(DOMAIN pf_args.dist, pf_args.dist,
                                    pf_args.nb_filtered_rows_min,
                                    pf_args.nb_filtered_rows_max)
       IN  pf_result' = [called |-> TRUE, rows |-> out.rows, nb |-> out.nb]
    /\ UNCHANGED <<interactions_main, interactions_dessert, type_of_dish, pf_args,
                   preferences, cached_neighbors, last, before_add, ever_neighbor,
                   exists, class_attrs, csv_reads, pv_args, pv_result, first_sort>>

PFNext == PercentileFilter

PFSpec == PFInit /\ [][PFNext]_vars

----------------------------------------------------------------------------
\* pivot_table_of_df called directly, as test_pivot_table_of_df does, on the
\* rows of a frame in their order; a frame may hold the same row twice

\* the frame of test_pivot_table_of_df; the recipes 101, 102, 103 are
\* written 1, 2, 3
pivot_test_rows == <<Record(1, 1, LIKE), Record(2, 2, LIKE), Record(3, 3, DISLIKE)>>

GeneratedRows ==
    UNION {[1..n -> {Record(u, r, x) : u \in UserIds, r \in RecipeIds, x \in Ratings}] :
              n \in 0..MaxRecords}

\* mutant: two rows of the same user and recipe are not noticed
duplicate_entries_never(rows) == FALSE

\* DataFrame.pivot raises ValueError (Index contains duplicate entries) when
\* two rows have the same index and column
duplicate_entries(rows) ==
    \E i, j \in DOMAIN rows :
        /\ i < j
        /\ rows[i].user_id = rows[j].user_id
        /\ rows[i].recipe_id = rows[j].recipe_id

PVInit ==
    /\ pv_args \in {[called |-> TRUE, rows |-> rows] :
                        rows \in GeneratedRows \cup {pivot_test_rows}}
    /\ pv_result = NoCall
    /\ first_sort = NoCall
    /\ pf_args = NoCall
    /\ pf_result = NoCall
    /\ type_of_dish = "main"
    /\ interactions_main = FixtureMain
    /\ interactions_dessert = FixtureDessert
    /\ preferences = << >>
    /\ cached_neighbors = {}
    /\ last = Call("idle", 0, 0, "none", "none", 0)
    /\ before_add = NoSnapshot
    /\ ever_neighbor = FALSE
    /\ exists = TRUE
    /\ class_attrs = {}
    /\ csv_reads = 0

\* User.pivot_table_of_df(frame); list(pivot_table.columns) is kept as the
\* sequence columns
PivotTableOfDf ==
    /\ pv_args.called
    /\ ~ pv_result.called
    /\ pv_result' =
          IF duplicate_entries(pv_args.rows)
          THEN [called |-> TRUE, error |-> "ValueError"]
          ELSE LET frame == pivot_table_of_df({pv_args.rows[i] : i \in DOMAIN pv_args.rows})
               IN  [called |-> TRUE, error |-> "none", index |-> frame.index,
                    columns |-> SortedSeq(frame.columns), cell |-> frame.cell]
    /\ UNCHANGED <<interactions_main, interactions_dessert, type_of_dish, pf_args,
                   pf_result, preferences, cached_neighbors, last, before_add,
                   ever_neighbor, exists, class_attrs, csv_reads, pv_args, first_sort>>

PVNext == PivotTableOfDf

PivotSpec == PVInit /\ [][PVNext]_vars

----------------------------------------------------------------------------
\* the loop of the page: a recipe is suggested, the user likes or dislikes
\* it, and the next recipe is suggested

\* mutant: the rating of the recipe shown is not recorded
UpdatePreferencesSkips(preference_value) ==
    /\ exists
    /\ last.op = "recipe_suggestion"
    /\ last.error = "none"
    /\ preferences' = preferences
    /\ last' = Call("add_preferences", last.ret, preference_value, "none", "none", 0)
    /\ before_add' = [valid |-> TRUE, preferences |-> preferences]
    /\ UNCHANGED <<tables, cached_neighbors, ever_neighbor>>

\* update_preferences(user, last_recommended_index, preference_value): the
\* recipe that recipe_suggestion() has just returned is added
UpdatePreferences(preference_value) ==
    /\ exists
    /\ last.op = "recipe_suggestion"
    /\ last.error = "none"
    /\ preferences' = dict_setitem(preferences, last.ret, preference_value)
    /\ last' = Call("add_preferences", last.ret, preference_value, "none", "none", 0)
    /\ before_add' = [valid |-> TRUE, preferences |-> preferences]
    /\ UNCHANGED <<tables, cached_neighbors, ever_neighbor>>

\* the page goes on after the rating was recorded or the suggestion failed
SessionReturn ==
    /\ last.op = "add_preferences" \/ last.error # "none"
    /\ Return

SessionNext ==
    \/ RecipeSuggestion
    \/ \E x \in Ratings : UpdatePreferences(x)
    \/ SessionReturn

SessionSpec == Init /\ [][SessionNext]_vars

----------------------------------------------------------------------------
\* repeated suggestions of one build. sort_values("dist") is a fixed
\* algorithm: which of several rows of equal dist comes first is not
\* specified, but the same frame is put in the same order each time. The
\* order of the first frame sorted is any order; a later sort of the same
\* frame repeats it.

\* the frame near_neighbor sorts and the number of rows its head() takes
sorted_frame(recipes_rating, interactions_pivot_input) ==
    LET dist == dist_of(recipes_rating, interactions_pivot_input)
        kept == not_all_opposite(recipes_rating, interactions_pivot_input)
        pf   == percentile_filter(kept, dist, NB_FILTERED_ROWS_MIN, NB_FILTERED_ROWS_MAX)
    IN  [rows |-> pf.rows, dist |-> [u \in pf.rows |-> dist[u]], nb |-> pf.nb]

\* the interactions_selection of near_neighbor when the head of the sort is
\* user_prox_id
near_neighbor_of_head(recipes_id, interactions, user_prox_id) ==
    pivot_table_of_df(interactions_prox_of(recipes_id, interactions, user_prox_id))

\* the tables whose sorted frame has more rows than its head() takes, and
\* tables where it has not
SortTables == {TieMain, CrowdMain, DenseMain, ChainMain, FixtureMain}

\* every ledger add_preferences can build over RecipeIds: the recipes are
\* distinct and in any order
Ledgers ==
    UNION {{l \in [1..n -> RecipeIds \X Ratings] :
               \A i, j \in 1..n : i # j => l[i][1] # l[j][1]} : n \in 0..MaxRecipe}

\* User("main", test=True, df_main, df_dessert) after the add_preferences
\* that built the ledger
RepeatInit ==
    /\ type_of_dish = "main"
    /\ interactions_main \in SortTables
    /\ interactions_dessert = FixtureDessert
    /\ preferences \in Ledgers
    /\ cached_neighbors = {}
    /\ last = Call("idle", 0, 0, "none", "none", 0)
    /\ before_add = NoSnapshot
    /\ ever_neighbor = FALSE
    /\ pf_args = NoCall
    /\ pf_result = NoCall
    /\ pv_args = NoCall
    /\ pv_result = NoCall
    /\ first_sort = NoCall
    /\ exists = TRUE
    /\ class_attrs = {}
    /\ csv_reads = 0

\* what a recipe_suggestion() that took user_prox_id as the head of the sort
\* of frame, with outcome o, leaves in first_sort
sort_record(frame, user_prox_id, o) ==
    IF ~ first_sort.called
    THEN [called |-> TRUE, frame |-> frame, head |-> user_prox_id,
          preferences |-> preferences, path |-> o.path, ret |-> o.ret,
          repeated |-> FALSE]
    ELSE IF first_sort.frame = frame
    THEN [first_sort EXCEPT !.repeated = TRUE]
    ELSE first_sort

\* mutant: a frame sorted again may come out in another order
RecipeSuggestionResorted ==
    /\ exists
    /\ idle
    /\ LET recipes_id == KeyList(preferences)
           recipes_rating == ValueList(preferences)
           interactions_pivot ==
               pivot_table_of_df({rec \in get_interactions :
                                     rec.recipe_id \in Keys(preferences)})
       IN  IF Len(preferences) = 0 \/ ~ can_broadcast(recipes_rating, interactions_pivot)
           THEN /\ \E o \in recipe_suggestion(get_interactions, preferences,
                                              cached_neighbors) :
                      /\ cached_neighbors' = o.near_neighbor
                      /\ last' = Call("recipe_suggestion", 0, 0, o.error, o.path, o.ret)
                      /\ ever_neighbor' = (ever_neighbor \/ o.path = "neighbor")
                /\ first_sort' = first_sort
           ELSE LET frame == sorted_frame(recipes_rating, interactions_pivot)
                IN  \E user_prox_id \in sorted_head(frame.rows, frame.dist, frame.nb) :
                    \E o \in suggestion_from(get_interactions, recipes_id,
                                 near_neighbor_of_head(recipes_id, get_interactions,
                                                       user_prox_id)) :
                        /\ cached_neighbors' = o.near_neighbor
                        /\ last' = Call("recipe_suggestion", 0, 0, o.error, o.path, o.ret)
                        /\ ever_neighbor' = (ever_neighbor \/ o.path = "neighbor")
                        /\ first_sort' = sort_record(frame, user_prox_id, o)
    /\ before_add' = NoSnapshot
    /\ UNCHANGED <<interactions_main, interactions_dessert, type_of_dish, pf_args,
                   pf_result, exists, class_attrs, csv_reads, pv_args, pv_result,
                   preferences>>

\* user.recipe_suggestion(), the order of a frame sorted before being the
\* order it had then
RecipeSuggestionSorted ==
    /\ exists
    /\ idle
    /\ LET recipes_id == KeyList(preferences)
           recipes_rating == ValueList(preferences)
           interactions_pivot ==
               pivot_table_of_df({rec \in get_interactions :
                                     rec.recipe_id \in Keys(preferences)})
       IN  IF Len(preferences) = 0 \/ ~ can_broadcast(recipes_rating, interactions_pivot)
           THEN /\ \E o \in recipe_suggestion(get_interactions, preferences,
                                              cached_neighbors) :
                      /\ cached_neighbors' = o.near_neighbor
                      /\ last' = Call("recipe_suggestion", 0, 0, o.error, o.path, o.ret)
                      /\ ever_neighbor' = (ever_neighbor \/ o.path = "neighbor")
                /\ first_sort' = first_sort
           ELSE LET frame == sorted_frame(recipes_rating, interactions_pivot)
                IN  \E user_prox_id \in sorted_head(frame.rows, frame.dist, frame.nb) :
                    /\ (first_sort.called /\ first_sort.frame = frame)
                          => user_prox_id = first_sort.head
                    /\ \E o \in suggestion_from(get_interactions, recipes_id,
                                    near_neighbor_of_head(recipes_id, get_interactions,
                                                          user_prox_id)) :
                          /\ cached_neighbors' = o.near_neighbor
                          /\ last' = Call("recipe_suggestion", 0, 0, o.error, o.path, o.ret)
                          /\ ever_neighbor' = (ever_neighbor \/ o.path = "neighbor")
                          /\ first_sort' = sort_record(frame, user_prox_id, o)
    /\ before_add' = NoSnapshot
    /\ UNCHANGED <<interactions_main, interactions_dessert, type_of_dish, pf_args,
                   pf_result, exists, class_attrs, csv_reads, pv_args, pv_result,
                   preferences>>

RepeatNext ==
    \/ Return
    \/ RecipeSuggestionSorted

RepeatSpec == RepeatInit /\ [][RepeatNext]_vars

----------------------------------------------------------------------------
\* properties

\* the rating of user u on recipe r in the table, 0 without a record
rating_of(interactions, u, r) ==
    IF \E rec \in interactions : rec.user_id = u /\ rec.recipe_id = r
    THEN (CHOOSE rec \in interactions : rec.user_id = u /\ rec.recipe_id = r).rate
    ELSE 0

\* the last call was a recipe_suggestion that went through near_neighbor
through_near_neighbor ==
    /\ last.op = "recipe_suggestion"
    /\ last.path \in {"neighbor", "fallback", "exhausted"}

\* the "dist" column that call attached to the pivot of the ledger's recipes
\* (recipe_suggestion leaves the preferences as they were)
suggestion_dist ==
    dist_of(ValueList(preferences),
            pivot_table_of_df({rec \in get_interactions :
                                  rec.recipe_id \in Keys(preferences)}))

\* C1: with a non-empty ledger, a recipe that recipe_suggestion() returns
\* is not a key of the ledger, on the neighbour path and on the fallback path.
C1_SuggestionNotInLedger ==
    (last.op = "recipe_suggestion" /\ last.error = "none" /\ Len(preferences) > 0)
        => last.ret \notin Keys(preferences)

C1_Witness ==
    /\ last.op = "recipe_suggestion"
    /\ last.error = "none"
    /\ last.path = "fallback"
    /\ Len(preferences) = 2
    /\ cached_neighbors = {}
    /\ Cardinality(Recipes(get_interactions)) = 3

\* C2: the distance attached to each candidate user is the sum over the
\* ledger's recipes r of |rating(u, r) - ledger[r]|, whatever the order in
\* which the recipes entered the ledger.
C2_DistanceIsL1 ==
    through_near_neighbor =>
        \A u \in DOMAIN suggestion_dist :
            suggestion_dist[u] =
                SumFn([r \in Keys(preferences) |->
                          Abs(rating_of(get_interactions, u, r) - Rating(preferences, r))],
                      Keys(preferences))

\* C3: with a non-empty ledger whose recipes all occur in the table,
\* recipe_suggestion() raises ValueError exactly when every recipe of the
\* table is in the ledger, and that error is the no-more-recipes one; when
\* exactly one recipe of the table is missing from the ledger it is returned.
C3_ExhaustionError ==
    (/\ last.op = "recipe_suggestion"
     /\ Len(preferences) > 0
     /\ Keys(preferences) \subseteq Recipes(get_interactions))
        => /\ last.error = "ValueError" <=> Recipes(get_interactions) \subseteq Keys(preferences)
           /\ last.error = "ValueError" => last.path = "exhausted"
           /\ \A r \in RecipeIds :
                Recipes(get_interactions) \ Keys(preferences) = {r}
                    => last.error = "none" /\ last.ret = r

C3_Witness ==
    /\ last.op = "recipe_suggestion"
    /\ last.error = "ValueError"
    /\ last.path = "exhausted"
    /\ Len(preferences) = 3
    /\ Keys(preferences) = Recipes(get_interactions)

\* C4 as stated: add_preferences(r, x) followed by del_preferences(r)
\* restores the ledger exactly, for every ledger and every r.
C4_RoundTripAlways ==
    (last.op = "del_preferences" /\ last.error = "none" /\ before_add.valid)
        => preferences = before_add.preferences

\* C4 amended: add_preferences(r, x) followed by del_preferences(r) restores
\* the ledger exactly (keys, ratings, order) when r was not in the ledger
\* before the add.
C4_RoundTripOfNewRecipe ==
    (/\ last.op = "del_preferences"
     /\ last.error = "none"
     /\ before_add.valid
     /\ last.recipe \notin Keys(before_add.preferences))
        => preferences = before_add.preferences

C4_Witness ==
    /\ last.op = "del_preferences"
    /\ last.error = "none"
    /\ before_add.valid
    /\ last.recipe \notin Keys(before_add.preferences)
    /\ Len(before_add.preferences) = 2
    /\ preferences = before_add.preferences

\* a step that is a call of del_preferences
del_step == last'.op = "del_preferences" /\ last.op # "del_preferences"

\* C5: del_preferences(r) with r not in the ledger raises KeyError and
\* leaves the ledger as it was; with r in the ledger it raises nothing.
C5_DeleteAbsentFails ==
    [][del_step =>
          /\ last'.recipe \notin Keys(preferences)
                => last'.error = "KeyError" /\ preferences' = preferences
          /\ last'.recipe \in Keys(preferences) => last'.error = "none"]_vars

C5_Witness ==
    /\ last.op = "del_preferences"
    /\ last.error = "KeyError"
    /\ last.recipe \notin Keys(preferences)
    /\ Len(preferences) = 2

\* C6: add_preferences(r, x) raises nothing; afterwards ledger[r] = x, the
\* other entries are as before, in the same order, and no recipe occurs
\* twice; repeated with the rating r already has, it changes nothing.
C6_AddIsUpsert ==
    last.op = "add_preferences" =>
        LET before == before_add.preferences
            others(p) == SelectSeq(p, LAMBDA e : e[1] # last.recipe)
        IN  /\ before_add.valid
            /\ last.error = "none"
            /\ Keys(preferences) = Keys(before) \cup {last.recipe}
            /\ Rating(preferences, last.recipe) = last.rating
            /\ others(preferences) = others(before)
            /\ Len(preferences) = Cardinality(Keys(preferences))
            /\ (last.recipe \in Keys(before) /\ Rating(before, last.recipe) = last.rating)
                  => preferences = before

C6_Witness ==
    /\ last.op = "add_preferences"
    /\ last.recipe \in Keys(before_add.preferences)
    /\ Rating(before_add.preferences, last.recipe) # last.rating
    /\ Rating(preferences, last.recipe) = last.rating
    /\ Len(preferences) = 2

RECURSIVE SortedDist(_)
\* the values of a sequence in ascending order, by insertion
SortedDist(dist) ==
    IF dist = << >> THEN << >>
    ELSE LET rest  == SortedDist(Tail(dist))
             x     == Head(dist)
             k     == Cardinality({i \in DOMAIN rest : rest[i] <= x})
         IN  SubSeq(rest, 1, k) \o <<x>> \o SubSeq(rest, k + 1, Len(rest))

\* ten times the 10th percentile of a non-empty column: the value at position
\* 0.1 * (n - 1) of the sorted column, interpolated linearly
Percentile10Times10(dist) ==
    LET s  == SortedDist(dist)
        n  == Len(dist)
        lo == (n - 1) \div 10
        fr == (n - 1) % 10
    IN  10 * s[lo + 1] + (IF lo + 2 <= n THEN fr * (s[lo + 2] - s[lo + 1]) ELSE 0)

\* the rows whose dist is at most the 10th percentile
AtOrBelowPercentile(dist) ==
    IF dist = << >> THEN {}
    ELSE {i \in DOMAIN dist : 10 * dist[i] <= Percentile10Times10(dist)}

\* C7: with c the number of rows at or below the 10th percentile of dist:
\* c < min_rows gives (all rows, min_rows); otherwise c > max_rows gives
\* (all rows, max_rows); otherwise (the rows at or below the percentile, c);
\* no rows give (no rows, min_rows).
C7_PercentileFilterCases ==
    pf_result.called =>
        LET rows  == DOMAIN pf_args.dist
            below == AtOrBelowPercentile(pf_args.dist)
            c     == Cardinality(below)
            mn    == pf_args.nb_filtered_rows_min
            mx    == pf_args.nb_filtered_rows_max
        IN  /\ c < mn => pf_result.rows = rows /\ pf_result.nb = mn
            /\ (c >= mn /\ c > mx) => pf_result.rows = rows /\ pf_result.nb = mx
            /\ (c >= mn /\ c <= mx) => pf_result.rows = below /\ pf_result.nb = c
            /\ rows = {} => pf_result.rows = {} /\ pf_result.nb = mn

C7_Witness ==
    /\ pf_result.called
    /\ pf_args.dist = data_B
    /\ pf_args.nb_filtered_rows_min = 1
    /\ pf_args.nb_filtered_rows_max = 6
    /\ pf_result.rows = {1, 5}
    /\ pf_result.nb = 2

\* C8: as long as no recipe_suggestion() of the user has taken the neighbour
\* path, the cached neighbours are empty and get_graph raises NoNeighborError,
\* for LIKE and for DISLIKE.
C8_NoGraphBeforeNeighbors ==
    ~ ever_neighbor =>
        /\ cached_neighbors = {}
        /\ last.op = "get_graph" => last.error = "NoNeighborError"

C8_Witness ==
    /\ ~ ever_neighbor
    /\ last.op = "get_graph"
    /\ last.rating = DISLIKE
    /\ last.error = "NoNeighborError"
    /\ Len(preferences) = 2

\* C9: get_neighbor_data with no cached neighbour raises NoNeighborError.
C9_NoDataBeforeNeighbors ==
    (last.op = "get_neighbor_data" /\ cached_neighbors = {})
        => last.error = "NoNeighborError"

\* the edges of graph between "you" and "user n" with key r, either way round
you_edges(graph, n, r) ==
    {e \in graph.edges :
        /\ e[3] = r
        /\ \/ e[1] = <<"you">> /\ e[2] = <<"user", n>>
           \/ e[2] = <<"you">> /\ e[1] = <<"user", n>>}

\* the pairs (neighbour, recipe) on which the active user and a cached
\* neighbour both hold the rating type
shared(type) ==
    {p \in cached_neighbors \X Keys(preferences) :
        /\ Rating(preferences, p[2]) = type
        /\ rating_of(get_interactions, p[1], p[2]) = type}

\* C10: in the graph get_graph(type) returns, "you" and "user n" are joined
\* by an edge of key r exactly when ledger[r] = type and n rated r type,
\* by one edge only; one shared rating in all gives 2 nodes and 1 edge.
C10_GraphEdges ==
    (last.op = "get_graph" /\ last.error = "none") =>
        /\ \A n \in cached_neighbors : \A r \in RecipeIds :
              /\ you_edges(last.ret, n, r) # {} <=> <<n, r>> \in shared(last.rating)
              /\ Cardinality(you_edges(last.ret, n, r)) <= 1
        /\ Cardinality(shared(last.rating)) = 1
              => Cardinality(last.ret.nodes) = 2 /\ Cardinality(last.ret.edges) = 1

C10_Witness ==
    /\ last.op = "get_graph"
    /\ last.error = "none"
    /\ last.rating = LIKE
    /\ interactions_main = FixtureMain
    /\ preferences = <<<<2, LIKE>>>>
    /\ last.ret.nodes = {<<"you">>, <<"user", 4>>}
    /\ last.ret.edges = {<<<<"you">>, <<"user", 4>>, 2>>}

\* the edges get_graph(type) has added before it prunes the graph
unpruned_edges(type) ==
    LET matrix    == graph_matrix(type, preferences, get_interactions, cached_neighbors)
        list_user == <<0>> \o SortedSeq(matrix.index \ {0})
    IN  {<<relabel(e[1]), relabel(e[2]), e[3]>> :
            e \in all_edges(type, matrix, list_user)}

\* C11 as stated: the nodes of the graph get_graph returns are exactly the
\* nodes with a path to "you".
C11_ComponentOfYou ==
    (last.op = "get_graph" /\ last.error = "none") =>
        last.ret.nodes = Component({<<"you">>}, unpruned_edges(last.rating))

\* C11 amended: the nodes of the graph get_graph returns are "you" and the
\* neighbours joined to "you" by an edge, i.e. those who share with the
\* active user a recipe rated type; the edges are the edges between those.
C11_NeighborsOfYou ==
    (last.op = "get_graph" /\ last.error = "none") =>
        /\ last.ret.nodes =
              {<<"you">>} \cup {user_label(p[1]) : p \in shared(last.rating)}
        /\ last.ret.edges =
              {e \in unpruned_edges(last.rating) :
                  e[1] \in last.ret.nodes /\ e[2] \in last.ret.nodes}

\* user 2 has a path to "you" through user 1 only, and is removed
C11_Witness ==
    /\ last.op = "get_graph"
    /\ last.error = "none"
    /\ last.rating = LIKE
    /\ interactions_main = ChainMain
    /\ cached_neighbors = {1, 2}
    /\ <<user_label(1), user_label(2), 3>> \in unpruned_edges(LIKE)
    /\ last.ret.nodes = {<<"you">>, user_label(1)}

\* the recipes of the ledger rated x
rated(x) == {r \in Keys(preferences) : Rating(preferences, r) = x}

\* C12: get_neighbor_data returns one row per cached neighbour n, with
\* common_likes the number of recipes liked in the ledger that n rated LIKE,
\* common_dislikes the number of recipes disliked in the ledger that n rated
\* DISLIKE, and recipes_to_recommend the number of recipes n rated LIKE that
\* are not liked in the ledger.
C12_NeighborCounts ==
    (last.op = "get_neighbor_data" /\ last.error = "none") =>
        /\ DOMAIN last.ret.rows = cached_neighbors
        /\ \A n \in cached_neighbors :
              /\ last.ret.rows[n].common_likes =
                    Cardinality({r \in rated(LIKE) :
                                    rating_of(get_interactions, n, r) = LIKE})
              /\ last.ret.rows[n].common_dislikes =
                    Cardinality({r \in rated(DISLIKE) :
                                    rating_of(get_interactions, n, r) = DISLIKE})
              /\ last.ret.rows[n].to_recommend =
                    Cardinality({r \in Recipes(get_interactions) \ rated(LIKE) :
                                    rating_of(get_interactions, n, r) = LIKE})

\* test_common_likes
C12_Witness ==
    /\ last.op = "get_neighbor_data"
    /\ last.rating = LIKE
    /\ interactions_main = FixtureMain
    /\ preferences = <<<<2, LIKE>>>>
    /\ cached_neighbors = {4}
    /\ last.ret.rows[4] = [common_likes |-> 1, common_dislikes |-> 0, to_recommend |-> 1]

\* a step that is a call of User(type, ...)
create_step == last'.op = "create" /\ last.op # "create"

\* C13: User(type_of_dish) returns a user exactly when type_of_dish is "main"
\* or "dessert"; for another value it raises ValueError and the session has
\* the user, or no user, it had before.
C13_CreateIffValidType ==
    [][create_step =>
          /\ last'.ret.type \in {"main", "dessert"}
                => /\ last'.error = "none"
                   /\ exists'
                   /\ type_of_dish' = last'.ret.type
          /\ last'.ret.type \notin {"main", "dessert"}
                => /\ last'.error = "ValueError"
                   /\ UNCHANGED <<exists, type_of_dish, preferences, cached_neighbors,
                                  interactions_main, interactions_dessert>>]_vars

C13_Witness ==
    /\ last.op = "create"
    /\ last.ret.type = "invalid"
    /\ last.error = "ValueError"
    /\ ~ exists

\* C14: a recipe that recipe_suggestion() returns occurs in the table of the
\* user's dish type, the rows of the neighbour analytics are users of that
\* table, and the dish type of a user never changes.
C14_OwnTableOnly ==
    /\ [](/\ (last.op = "recipe_suggestion" /\ last.error = "none")
               => last.ret \in Recipes(IF type_of_dish = "main"
                                       THEN interactions_main
                                       ELSE interactions_dessert)
          /\ cached_neighbors \subseteq Users(IF type_of_dish = "main"
                                             THEN interactions_main
                                             ELSE interactions_dessert))
    /\ [][type_of_dish' = type_of_dish]_vars

\* a suggestion made for a main-dish user that the dessert table cannot give
C14_Witness ==
    /\ type_of_dish = "main"
    /\ last.op = "recipe_suggestion"
    /\ last.error = "none"
    /\ last.path = "neighbor"
    /\ last.ret \in Recipes(interactions_main)
    /\ last.ret \notin Recipes(interactions_dessert)

\* the neighbour sets near_neighbor derives from the ledger as it is: none
\* but the empty one for an empty ledger
derived_neighbor_sets ==
    IF Len(preferences) = 0 THEN {{}}
    ELSE {sel.index :
            sel \in near_neighbor(KeyList(preferences), ValueList(preferences),
                                  get_interactions,
                                  pivot_table_of_df({rec \in get_interactions :
                                      rec.recipe_id \in Keys(preferences)}))}

\* C15: after every recipe_suggestion() call that got as far as the
\* neighbour selection or was a cold start, the cached neighbours are the
\* ones derived from the ledger of that call.
C15_CacheFollowsLedger ==
    (last.op = "recipe_suggestion" /\ last.path # "shape")
        => cached_neighbors \in derived_neighbor_sets

\* C16: across the creations and the load_datasets() calls of a session the
\* CSV files are read once, by the first of them.
C16_LoadedOnce ==
    csv_reads <= 1

\* C17: the number percentile_filter returns is the number of rows
\* of the frame it returns, which is between the minimum and the maximum.
C17_NbIsRowCount ==
    pf_result.called =>
        /\ pf_result.nb = Cardinality(pf_result.rows)
        /\ pf_args.nb_filtered_rows_min <= Cardinality(pf_result.rows)
        /\ Cardinality(pf_result.rows) <= pf_args.nb_filtered_rows_max

\* the recipes the cached neighbours rated outside the ledger, the sum of
\* their ratings of recipe r, and the recipes of greatest sum
neighbor_columns ==
    Recipes({rec \in get_interactions : rec.user_id \in cached_neighbors})
        \ Keys(preferences)

neighbor_total(r) ==
    SumFn([n \in cached_neighbors |-> rating_of(get_interactions, n, r)],
          cached_neighbors)

neighbor_best ==
    {r \in neighbor_columns : \A q \in neighbor_columns :
        neighbor_total(q) <= neighbor_total(r)}

C19_AddedEntryIsLast ==
    last.op = "add_preferences" =>
        preferences[Len(preferences)] = <<last.recipe, last.rating>>

\* C19 amended: after add_preferences(r, x) the entry of r is the last entry
\* of the ledger when r was not in the ledger before; when it was, the entry
\* keeps its position and takes the rating x.
C19_NewEntryIsLast ==
    (last.op = "add_preferences" /\ before_add.valid) =>
        IF last.recipe \notin Keys(before_add.preferences)
        THEN preferences = Append(before_add.preferences, <<last.recipe, last.rating>>)
        ELSE /\ KeyList(preferences) = KeyList(before_add.preferences)
             /\ Rating(preferences, last.recipe) = last.rating

\* the first of three entries is rated again and stays the first
C19_Witness ==
    /\ last.op = "add_preferences"
    /\ before_add.valid
    /\ Len(before_add.preferences) = 3
    /\ before_add.preferences[1][1] = last.recipe
    /\ before_add.preferences[1][2] # last.rating
    /\ preferences[1] = <<last.recipe, last.rating>>

\* C20: a step that calls recipe_suggestion, get_graph or get_neighbor_data
\* leaves the ledger as it was, whether the call returns or raises; a step
\* that changes the ledger is an add_preferences or a del_preferences; no
\* step changes an interaction table.
C20_ReadsArePure ==
    [][/\ last'.op \in {"recipe_suggestion", "get_graph", "get_neighbor_data"}
            => preferences' = preferences
       /\ preferences' # preferences
            => last'.op \in {"add_preferences", "del_preferences"}
       /\ interactions_main' = interactions_main
       /\ interactions_dessert' = interactions_dessert]_vars

\* a suggestion that raised on a ledger of three recipes
C20_Witness ==
    /\ last.op = "recipe_suggestion"
    /\ last.error = "ValueError"
    /\ Len(preferences) = 3
    /\ cached_neighbors = {}
    /\ ever_neighbor

\* C21: a User that was just created has an empty ledger and no cached
\* neighbour, whatever the user it replaces held, and a recipe_suggestion()
\* made while the ledger is still empty is a cold start that caches no
\* neighbour.
C21_NewUserStartsEmpty ==
    /\ []((last.op = "create" /\ last.error = "none")
             => preferences = << >> /\ cached_neighbors = {})
    /\ [][(/\ last'.op = "recipe_suggestion"
           /\ last.op # "recipe_suggestion"
           /\ preferences = << >>
           /\ ~ ever_neighbor)
             => last'.path = "cold" /\ cached_neighbors' = {}]_vars

\* the third creation of the session, for desserts
C21_Witness ==
    /\ last.op = "create"
    /\ last.error = "none"
    /\ last.ret.type = "dessert"
    /\ csv_reads = 3
    /\ preferences = << >>
    /\ cached_neighbors = {}

\* C22: when the suggestion went through the neighbour selection and left
\* cached neighbours, it returned a recipe outside the ledger that a cached
\* neighbour rated, and no such recipe has a greater sum of ratings over the
\* cached neighbours.
C22_MaxColumnSum ==
    (through_near_neighbor /\ cached_neighbors # {}) =>
        /\ last.error = "none"
        /\ last.path = "neighbor"
        /\ last.ret \notin Keys(preferences)
        /\ \E n \in cached_neighbors : rating_of(get_interactions, n, last.ret) # 0
        /\ \A q \in Recipes(get_interactions) \ Keys(preferences) :
              (\E n \in cached_neighbors : rating_of(get_interactions, n, q) # 0)
                  => neighbor_total(q) <= neighbor_total(last.ret)

\* recipe 3 has the sum 2 and recipe 2 the sum 0 over the two neighbours
C22_Witness ==
    /\ last.op = "recipe_suggestion"
    /\ interactions_main = DenseMain
    /\ type_of_dish = "main"
    /\ preferences = <<<<1, LIKE>>>>
    /\ cached_neighbors = {1, 2}
    /\ last.ret = 3

\* C23: a suggestion that went through the neighbour selection and found no
\* neighbour takes the fallback path (or raises when no recipe is left): it
\* returns a recipe of the table outside the ledger and each of them is a
\* possible result; with an empty ledger the suggestion is a cold start and
\* each recipe of the table is a possible result.
C23_RandomPaths ==
    last.op = "recipe_suggestion" =>
        /\ (through_near_neighbor /\ cached_neighbors = {})
              => /\ last.path \in {"fallback", "exhausted"}
                 /\ last.error = "none"
                       => /\ last.path = "fallback"
                          /\ last.ret \in Recipes(get_interactions) \ Keys(preferences)
                 /\ \A r \in Recipes(get_interactions) \ Keys(preferences) :
                       \E o \in recipe_suggestion(get_interactions, preferences,
                                                  cached_neighbors) :
                           o.path = "fallback" /\ o.error = "none" /\ o.ret = r
        /\ Len(preferences) = 0
              => /\ last.path = "cold"
                 /\ last.error = "none" => last.ret \in Recipes(get_interactions)
                 /\ \A r \in Recipes(get_interactions) :
                       \E o \in recipe_suggestion(get_interactions, preferences,
                                                  cached_neighbors) :
                           o.path = "cold" /\ o.error = "none" /\ o.ret = r

\* a fallback that returned the greater of the two recipes left
C23_Witness ==
    /\ last.op = "recipe_suggestion"
    /\ last.path = "fallback"
    /\ Len(preferences) = 1
    /\ Cardinality(Recipes(get_interactions) \ Keys(preferences)) = 2
    /\ \E q \in Recipes(get_interactions) \ Keys(preferences) : q < last.ret

\* C24: after a recipe_suggestion() with a non-empty ledger that reached the
\* neighbour selection, the cached neighbours are the users among the first
\* target-count candidates in ascending distance who have a record on a
\* recipe outside the ledger.
C24_NeighborSetDefinition ==
    through_near_neighbor =>
        LET pivot == pivot_table_of_df({rec \in get_interactions :
                                           rec.recipe_id \in Keys(preferences)})
            pool  == not_all_opposite(ValueList(preferences), pivot)
            pf    == percentile_filter(pool, suggestion_dist,
                                       NB_FILTERED_ROWS_MIN, NB_FILTERED_ROWS_MAX)
            has_unrated(u) == \E rec \in get_interactions :
                                  rec.user_id = u /\ rec.recipe_id \notin Keys(preferences)
        IN  \E first \in SUBSET pf.rows :
                /\ Cardinality(first) = Min(pf.nb, Cardinality(pf.rows))
                /\ \A p \in first : \A q \in pf.rows \ first :
                      suggestion_dist[p] <= suggestion_dist[q]
                /\ cached_neighbors = {u \in first : has_unrated(u)}

\* users 2 and 4 are at distance 0; user 2 has no other record and is dropped
C24_Witness ==
    /\ last.op = "recipe_suggestion"
    /\ last.path = "neighbor"
    /\ interactions_main = FixtureMain
    /\ type_of_dish = "main"
    /\ preferences = <<<<2, LIKE>>>>
    /\ suggestion_dist[2] = 0
    /\ suggestion_dist[4] = 0
    /\ cached_neighbors = {4}

\* C25: a graph that get_graph returns holds the node "you"; its other nodes
\* are "user n" for cached neighbours n; when no cached neighbour shares a
\* rating of the requested type with the active user, it is the node "you"
\* alone, without edges.
C25_YouAlwaysInGraph ==
    (last.op = "get_graph" /\ last.error = "none") =>
        /\ <<"you">> \in last.ret.nodes
        /\ last.ret.nodes \ {<<"you">>} \subseteq {user_label(n) : n \in cached_neighbors}
        /\ shared(last.rating) = {}
              => last.ret.nodes = {<<"you">>} /\ last.ret.edges = {}

\* the second graph of test_get_graph
C25_Witness ==
    /\ last.op = "get_graph"
    /\ last.error = "none"
    /\ last.rating = DISLIKE
    /\ interactions_main = FixtureMain
    /\ preferences = <<<<2, LIKE>>>>
    /\ cached_neighbors = {4}
    /\ last.ret.nodes = {<<"you">>}
    /\ last.ret.edges = {}

\* C26: pivot_table_of_df raises when two rows have the same user_id and
\* recipe_id; otherwise its rows are the user_ids present, its columns the
\* recipe_ids present in ascending order, and the cell (u, r) is the rating
\* recorded, or 0 without a record.
C26_PivotTable ==
    pv_result.called =>
        LET rows == pv_args.rows
            recs == {rows[i] : i \in DOMAIN rows}
        IN  IF \E i, j \in DOMAIN rows :
                   /\ i # j
                   /\ rows[i].user_id = rows[j].user_id
                   /\ rows[i].recipe_id = rows[j].recipe_id
            THEN pv_result.error = "ValueError"
            ELSE /\ pv_result.error = "none"
                 /\ pv_result.index = {rec.user_id : rec \in recs}
                 /\ {pv_result.columns[k] : k \in DOMAIN pv_result.columns}
                       = {rec.recipe_id : rec \in recs}
                 /\ \A k \in 1..(Len(pv_result.columns) - 1) :
                       pv_result.columns[k] < pv_result.columns[k + 1]
                 /\ \A u \in pv_result.index : \A k \in DOMAIN pv_result.columns :
                       pv_result.cell[<<u, pv_result.columns[k]>>]
                           = rating_of(recs, u, pv_result.columns[k])

\* rows given in descending recipe order, with a cell left to fill
C26_Witness ==
    /\ pv_result.called
    /\ pv_args.rows = <<Record(1, 3, LIKE), Record(2, 1, DISLIKE), Record(1, 2, LIKE)>>
    /\ pv_result.error = "none"
    /\ pv_result.columns = <<1, 2, 3>>
    /\ pv_result.index = {1, 2}
    /\ pv_result.cell[<<2, 3>>] = 0
    /\ pv_result.cell[<<2, 1>>] = DISLIKE

\* C27: in a session where each recipe suggested is rated before the next
\* suggestion, over a table of N recipes: the ledger holds distinct recipes
\* of the table; each rating adds one recipe that was not in the ledger; a
\* suggestion made with fewer than N recipes in the ledger returns a recipe
\* outside the ledger; a suggestion made with N recipes in the ledger raises
\* ValueError, the no-more-recipes one when N > 0.
C27_SessionTermination ==
    /\ Len(preferences) = Cardinality(Keys(preferences))
    /\ Keys(preferences) \subseteq Recipes(get_interactions)
    /\ last.op = "recipe_suggestion" =>
          IF Len(preferences) < Cardinality(Recipes(get_interactions))
          THEN /\ last.error = "none"
               /\ last.ret \in Recipes(get_interactions) \ Keys(preferences)
          ELSE /\ last.error = "ValueError"
               /\ Recipes(get_interactions) # {} => last.path = "exhausted"
    /\ last.op = "add_preferences" =>
          /\ Len(preferences) = Len(before_add.preferences) + 1
          /\ last.recipe \notin Keys(before_add.preferences)

\* the fourth suggestion over a table of three recipes
C27_Witness ==
    /\ Cardinality(Recipes(get_interactions)) = 3
    /\ Len(preferences) = 3
    /\ last.op = "recipe_suggestion"
    /\ last.error = "ValueError"
    /\ last.path = "exhausted"
    /\ ever_neighbor

\* C28: no cached neighbour of a suggestion that went through the neighbour
\* selection rated every recipe of the ledger opposite to the active user,
\* and each cached neighbour rated a recipe of the ledger.
C28_OppositeUsersExcluded ==
    through_near_neighbor =>
        \A n \in cached_neighbors :
            /\ \E r \in Keys(preferences) : rating_of(get_interactions, n, r) # 0
            /\ ~ \A r \in Keys(preferences) :
                    Abs(rating_of(get_interactions, n, r) - Rating(preferences, r)) = 2

\* C29: after a recipe_suggestion() made with a non-empty ledger
\* that was not neighbour-driven, no neighbour is cached (so that get_graph
\* raises NoNeighborError).
C29_CacheClearedUnlessNeighbor ==
    (last.op = "recipe_suggestion" /\ Len(preferences) > 0 /\ last.path # "neighbor")
        => cached_neighbors = {}

\* What the code guarantees around C29: a recipe_suggestion() that takes the
\* fallback path or raises the no-more-recipes error leaves no cached
\* neighbour; one that is neighbour-driven leaves some; a cold start, a call
\* that raises before the neighbour selection and every other method leave
\* the cached neighbours as they were; get_graph raises NoNeighborError
\* exactly when none is cached.
C29_CacheClearedOnFallback ==
    /\ [](/\ (last.op = "recipe_suggestion" /\ last.path \in {"fallback", "exhausted"})
               => cached_neighbors = {}
          /\ (last.op = "recipe_suggestion" /\ last.path = "neighbor")
               => cached_neighbors # {}
          /\ last.op = "get_graph"
               => (last.error = "NoNeighborError" <=> cached_neighbors = {}))
    /\ [][(last'.op # "recipe_suggestion" \/ last'.path \in {"cold", "shape"})
             => cached_neighbors' = cached_neighbors]_vars

\* a fallback after an earlier neighbour-driven suggestion
C29_Witness ==
    /\ ever_neighbor
    /\ last.op = "recipe_suggestion"
    /\ last.path = "fallback"
    /\ cached_neighbors = {}

====
